---- MODULE Spec2Model ----
(***************************************************************************)
(* Model of src/src/App.jsx: a React component that shows the camera,      *)
(* snapshots frames, hands them to a Tesseract worker and, when            *)
(* auto-capture is on, samples the centre box of the video on every        *)
(* animation frame and captures when its luma variance is high.            *)
(*                                                                         *)
(* React semantics used by the model:                                      *)
(*  - a state setter that changes a value re-renders the component; the    *)
(*    model commits the new state, the cleanup of every effect whose       *)
(*    dependencies changed and the re-run of that effect in the step that  *)
(*    calls the setter;                                                    *)
(*  - a function defined in the component body reads the state values of   *)
(*    the render that created it (its closure), not the current ones;      *)
(*  - cancelAnimationFrame(id) of a callback that has already been called  *)
(*    does nothing.                                                        *)
(* autoConfidenceThreshold is kept in thousandths (the slider's value).    *)
(***************************************************************************)
EXTENDS Integers, Sequences, FiniteSets, Bags, TLC

VARIABLES
  stream,                  \* useState: the stream stored by setStream (0 = null)
  ocrText,                 \* useState
  processing,              \* useState
  autoCapture,             \* useState
  worker,                  \* useState: "null" or "w"
  facingMode,              \* useState
  lastCaptureDataUrl,      \* useState ("null" before the first capture)
  autoConfidenceThreshold, \* useState, in thousandths
  video,                   \* the <video> element: readyState, videoWidth, videoHeight, shown scene
  srcObject,               \* videoRef.current.srcObject (0 = none)
  liveStreams,             \* acquired streams whose tracks have not been stopped
  acquired,                \* number of streams getUserMedia has handed out
  startCalls,              \* bag of startCamera calls suspended at an await
  effStream,               \* `stream` as seen by the cleanup of the facingMode effect
  initPc,                  \* position of the worker initialisation: "loading", "done", "failed"
  loop,                    \* the check callback of the current auto-capture effect instance
  stale,                   \* bag of check callbacks whose effect instance has been cleaned up
  calls,                   \* bag of images of worker.recognize calls made by onCaptureClick
  event,                   \* the outcome of the last step, when it was a check, a capture
                           \* request, a settled recognize call or an alert ("none" otherwise)
  mounted,                 \* the component is mounted
  sample                   \* a region handed to the sampler's arithmetic, with its results

vars == <<stream, ocrText, processing, autoCapture, worker, facingMode,
          lastCaptureDataUrl, autoConfidenceThreshold, video, srcObject,
          liveStreams, acquired, startCalls, effStream, initPc, loop, stale,
          calls, event, mounted, sample>>

\* What only the unmount and the sampler's own steps change.
fixedVars == <<mounted, sample>>

cameraVars == <<stream, facingMode, srcObject, liveStreams, acquired, startCalls, effStream>>
captureVars == <<ocrText, processing, autoCapture, worker, lastCaptureDataUrl,
                 autoConfidenceThreshold, initPc, loop, stale, calls>>

\* No region has been handed to the sampler's arithmetic.
NoSample == [pc |-> "none"]

----------------------------------------------------------------------------
\* Bounds of the model.
MaxStale == 2     \* check callbacks that outlive their effect instance
MaxManual == 1    \* recognize calls of onCaptureClick in flight
MaxStreams == 3   \* streams handed out by getUserMedia

----------------------------------------------------------------------------
\* The video element and what it shows.

Scenes == {"blank", "memo"}

\* The pixel of the scene at (x, y): a white sheet, or a memo written as a grey
\* checkerboard of levels 0 and 50 (variance 625).
ScenePixel(scene, x, y) ==
  LET v == IF scene = "blank" THEN 255 ELSE IF (x + y) % 2 = 0 THEN 0 ELSE 50
  IN  <<v, v, v>>

NoVideo == [readyState |-> 0, videoWidth |-> 0, videoHeight |-> 0, scene |-> "blank"]

Videos ==
  {NoVideo, [readyState |-> 4, videoWidth |-> 0, videoHeight |-> 0, scene |-> "blank"]}
  \cup {[readyState |-> 4, videoWidth |-> 5, videoHeight |-> 10, scene |-> s] : s \in Scenes}


\* check, lines 122-125: the centre box, 60% of the width and 20% of the height.
boxW(v) == (v.videoWidth * 6) \div 10
boxH(v) == (v.videoHeight * 2) \div 10
boxX(v) == (v.videoWidth - boxW(v)) \div 2
boxY(v) == (v.videoHeight - boxH(v)) \div 2

\* getImageData of the box: the pixels row by row, each <<r, g, b>>.
pixels(v) ==
  [i \in 1..(boxW(v) * boxH(v)) |->
     ScenePixel(v.scene, boxX(v) + ((i - 1) % boxW(v)), boxY(v) + ((i - 1) \div boxW(v)))]

\* 0.299*r + 0.587*g + 0.114*b. The scenes are grey (r = g = b), for which the
\* weighted sum is the grey level itself, so the integer quotient is exact.
gray(p) == (299 * p[1] + 587 * p[2] + 114 * p[3]) \div 1000

RECURSIVE sum(_)
sum(px) == IF px = <<>> THEN 0 ELSE gray(Head(px)) + sum(Tail(px))

RECURSIVE sumSq(_)
sumSq(px) == IF px = <<>> THEN 0 ELSE gray(Head(px)) * gray(Head(px)) + sumSq(Tail(px))

\* variance = sumSq/len - (sum/len)^2 is a fraction; VarianceTimesLenSq is its
\* numerator over len^2, so that variance > t iff VarianceTimesLenSq > t * len^2.
len(v) == boxW(v) * boxH(v)
VarianceTimesLenSq(v) == len(v) * sumSq(pixels(v)) - sum(pixels(v)) * sum(pixels(v))

\* variance > t as line 144 computes it; with len = 0 the variance is NaN and the
\* comparison is false.
VarianceAbove(v, t) == len(v) > 0 /\ VarianceTimesLenSq(v) > t * len(v) * len(v)

varianceThreshold == 500

\* The slider, lines 217: min 100, max 2000, value autoConfidenceThreshold*1000.
SliderValues == {600, 2000}

\* canvas.toDataURL of the frame drawn by capturePhoto: an empty canvas gives "data:,".
toDataURL(v) ==
  IF v.videoWidth = 0 \/ v.videoHeight = 0 THEN "data:," ELSE v.scene

Images == {"data:,"} \cup Scenes

\* The text worker.recognize finds in an image (the engine is a black box: one
\* fixed text per image).
recognize(img) == IF img = "memo" THEN "MEMO" ELSE ""

----------------------------------------------------------------------------
\* The sampler's arithmetic as JavaScript computes it: IEEE-754 binary64, every
\* operation rounded to nearest, ties to even. A natural number is the sequence
\* of its digits in base 2^15, lowest first, without leading zeros; a double is
\* [s, m, e] with value s * m * 2^e and m < 2^53 + 1 (s = 0 for NaN). The
\* values of the sampler (luma up to 255, sums over a box) stay clear of
\* overflow and of subnormals, which the operators leave out.

Base == 32768
MantissaBits == 53

RECURSIVE Trim(_)
Trim(a) ==
  IF a = <<>> THEN <<>>
  ELSE IF a[Len(a)] = 0 THEN Trim(SubSeq(a, 1, Len(a) - 1)) ELSE a

RECURSIVE NatOf(_)
NatOf(n) == IF n = 0 THEN <<>> ELSE <<n % Base>> \o NatOf(n \div Base)

RECURSIVE AddCarry(_, _, _)
AddCarry(a, b, c) ==
  IF a = <<>> /\ b = <<>> THEN NatOf(c)
  ELSE LET x == (IF a = <<>> THEN 0 ELSE Head(a)) + (IF b = <<>> THEN 0 ELSE Head(b)) + c
       IN  <<x % Base>> \o AddCarry(IF a = <<>> THEN <<>> ELSE Tail(a),
                                    IF b = <<>> THEN <<>> ELSE Tail(b), x \div Base)

Add(a, b) == AddCarry(a, b, 0)

\* a - b for a >= b.
RECURSIVE SubBorrow(_, _, _)
SubBorrow(a, b, c) ==
  IF a = <<>> THEN <<>>
  ELSE LET x == Head(a) - (IF b = <<>> THEN 0 ELSE Head(b)) - c
       IN  <<x % Base>> \o SubBorrow(Tail(a), IF b = <<>> THEN <<>> ELSE Tail(b),
                                     IF x < 0 THEN 1 ELSE 0)

Sub(a, b) == Trim(SubBorrow(a, b, 0))

\* -1, 0 or 1 as a < b, a = b or a > b.
RECURSIVE CmpFrom(_, _, _)
CmpFrom(a, b, i) ==
  IF i = 0 THEN 0
  ELSE IF a[i] < b[i] THEN -1
  ELSE IF a[i] > b[i] THEN 1
  ELSE CmpFrom(a, b, i - 1)

Cmp(a, b) ==
  IF Len(a) < Len(b) THEN -1
  ELSE IF Len(a) > Len(b) THEN 1
  ELSE CmpFrom(a, b, Len(a))

\* a * k + c for a digit k.
RECURSIVE MulDigit(_, _, _)
MulDigit(a, k, c) ==
  IF a = <<>> THEN NatOf(c)
  ELSE LET x == Head(a) * k + c
       IN  <<x % Base>> \o MulDigit(Tail(a), k, x \div Base)

RECURSIVE Mul(_, _)
Mul(a, b) ==
  IF a = <<>> \/ b = <<>> THEN <<>>
  ELSE Trim(Add(MulDigit(a, Head(b), 0), <<0>> \o Mul(a, Tail(b))))

\* Quotient and remainder of a by n, 0 < n < 2^15.
RECURSIVE DivDigit(_, _)
DivDigit(a, n) ==
  IF a = <<>> THEN [q |-> <<>>, r |-> 0]
  ELSE LET hi == DivDigit(Tail(a), n)
           x  == hi.r * Base + Head(a)
       IN  [q |-> Trim(<<x \div n>> \o hi.q), r |-> x % n]

RECURSIVE Pow2(_)
Pow2(k) == IF k = 0 THEN 1 ELSE 2 * Pow2(k - 1)

\* a * 2^n and the integer part of a / 2^n.
Shl(a, n) ==
  IF a = <<>> THEN <<>>
  ELSE [i \in 1..(n \div 15) |-> 0] \o MulDigit(a, Pow2(n % 15), 0)

Shr(a, n) ==
  IF Len(a) <= n \div 15 THEN <<>>
  ELSE DivDigit(SubSeq(a, n \div 15 + 1, Len(a)), Pow2(n % 15)).q

RECURSIVE BitsOfDigit(_)
BitsOfDigit(d) == IF d = 0 THEN 0 ELSE 1 + BitsOfDigit(d \div 2)

BitLen(a) == IF a = <<>> THEN 0 ELSE 15 * (Len(a) - 1) + BitsOfDigit(a[Len(a)])

IsOdd(a) == a # <<>> /\ Head(a) % 2 = 1

NaN == [s |-> 0, m |-> <<>>, e |-> 0]

\* The double nearest to s * (m + f) * 2^e, where 0 <= f < 1 and sticky tells
\* whether f > 0: ties go to the even mantissa.
Round(s, m, e, sticky) ==
  IF BitLen(m) <= MantissaBits THEN [s |-> s, m |-> m, e |-> e]
  ELSE LET sh   == BitLen(m) - MantissaBits
           q    == Shr(m, sh)
           c    == Cmp(Sub(m, Shl(q, sh)), Shl(<<1>>, sh - 1))
           up   == c > 0 \/ (c = 0 /\ (sticky \/ IsOdd(q)))
       IN  [s |-> s, m |-> IF up THEN Add(q, <<1>>) ELSE q, e |-> e + sh]

\* An integer below 2^31 as a double.
ToDouble(n) == [s |-> 1, m |-> NatOf(n), e |-> 0]

\* a * b, a + b for doubles that are not negative; a - b likewise; a / n for an
\* integer n (0 / 0 is NaN).
DMul(a, b) == Round(1, Mul(a.m, b.m), a.e + b.e, FALSE)

MinExp(a, b) == IF a.e < b.e THEN a.e ELSE b.e

DAdd(a, b) ==
  Round(1, Add(Shl(a.m, a.e - MinExp(a, b)), Shl(b.m, b.e - MinExp(a, b))), MinExp(a, b), FALSE)

DSub(a, b) ==
  IF a.s = 0 \/ b.s = 0 THEN NaN
  ELSE LET x == Shl(a.m, a.e - MinExp(a, b))
           y == Shl(b.m, b.e - MinExp(a, b))
       IN  IF Cmp(x, y) >= 0 THEN Round(1, Sub(x, y), MinExp(a, b), FALSE)
           ELSE Round(-1, Sub(y, x), MinExp(a, b), FALSE)

DivShift == 75

DDiv(a, n) ==
  IF n = 0 THEN NaN
  ELSE LET d == DivDigit(Shl(a.m, DivShift), n)
       IN  Round(1, d.q, a.e - DivShift, d.r # 0)

\* a > b for any double a and a double b that is not negative (false for NaN).
DGreater(a, b) ==
  /\ a.s = 1
  /\ b.s = 1
  /\ Cmp(Shl(a.m, a.e - MinExp(a, b)), Shl(b.m, b.e - MinExp(a, b))) > 0

IsZero(a) == a.s # 0 /\ a.m = <<>>

\* The literals of line 135.
Luma299 == [s |-> 1, m |-> <<16777, 19136, 2883, 153>>, e |-> -54]
Luma587 == [s |-> 1, m |-> <<2097, 14680, 4456, 75>>, e |-> -52]
Luma114 == [s |-> 1, m |-> <<30409, 16252, 15466, 233>>, e |-> -56]

\* Lines 132-140 on the pixels px of a box.
grayDouble(p) ==
  DAdd(DAdd(DMul(Luma299, ToDouble(p[1])), DMul(Luma587, ToDouble(p[2]))),
       DMul(Luma114, ToDouble(p[3])))

\* sum and sumSq after the loop has run over px: the pixels are added in order.
RECURSIVE sumDouble(_)
sumDouble(px) ==
  IF px = <<>> THEN ToDouble(0)
  ELSE DAdd(sumDouble(SubSeq(px, 1, Len(px) - 1)), grayDouble(px[Len(px)]))

RECURSIVE sumSqDouble(_)
sumSqDouble(px) ==
  IF px = <<>> THEN ToDouble(0)
  ELSE DAdd(sumSqDouble(SubSeq(px, 1, Len(px) - 1)),
            DMul(grayDouble(px[Len(px)]), grayDouble(px[Len(px)])))

mean(px) == DDiv(sumDouble(px), Len(px))

\* The mean of the squares alone, without the square of the mean.
meanOfSquares(px) == DDiv(sumSqDouble(px), Len(px))

variance(px) ==
  IF Len(px) = 0 THEN NaN
  ELSE DSub(DDiv(sumSqDouble(px), Len(px)), DMul(mean(px), mean(px)))

\* The comparison of line 144 the wrong way round.
TriggersBelow(v, t) == DGreater(ToDouble(t), v)

\* variance > t for a computed variance v and an integer t, line 144.
Triggers(v, t) == DGreater(v, ToDouble(t))

----------------------------------------------------------------------------
\* check callbacks. pc is where the callback stands: "scheduled" (handed to
\* requestAnimationFrame), "recognizing" (awaiting runOcr), "cooldown" (awaiting
\* the setTimeout of line 150). processing and worker are the values of the
\* render whose effect created the callback; img is the image under recognition.

NoThread == [pc |-> "none", processing |-> FALSE, worker |-> "null", img |-> "none"]

NewThread(pr, wk) == [pc |-> "scheduled", processing |-> pr, worker |-> wk, img |-> "none"]

\* The effect of lines 107-157 after a render with autoCapture = ac,
\* processing = pr, worker = wk, when the loop callback is l and the detached
\* callbacks are s. With unchanged dependencies nothing runs. Otherwise the cleanup
\* cancels rafId, which stops l only if l is waiting for its animation frame; a
\* suspended l goes on and is detached. Then the effect body schedules a new check.
autoCaptureEffect(l, s, ac, pr, wk) ==
  IF <<ac, pr, wk>> = <<autoCapture, processing, worker>>
  THEN [loop |-> l, stale |-> s]
  ELSE [loop  |-> IF ac THEN NewThread(pr, wk) ELSE NoThread,
        stale |-> IF l.pc \in {"none", "scheduled"} THEN s ELSE s (+) SetToBag({l})]

\* Commit of a render: the loops after the effect, within the model's bound.
Render(l, s) ==
  LET r == autoCaptureEffect(l, s, autoCapture', processing', worker')
  IN  /\ BagCardinality(r.stale) <= MaxStale
      /\ loop' = r.loop
      /\ stale' = r.stale


Replace(s, old, new) == (s (-) SetToBag({old})) (+) SetToBag({new})

\* The loop callback and the detached callbacks once th, one of them, has become th2.
LoopWith(th, inLoop, th2) == IF inLoop THEN th2 ELSE loop
StaleWith(th, inLoop, th2) == IF inLoop THEN stale ELSE Replace(stale, th, th2)

----------------------------------------------------------------------------
\* Lines 83-97, after the await of line 88: setOcrText(text) when recognize
\* resolved (ok), and setProcessing(false) in the finally block either way.
\* A variant that drops the setOcrText(text) of line 89.
ocrTextNotStored(img, ok) == ocrText

ocrTextSettled(img, ok) == IF ok THEN recognize(img) ELSE ocrText

\* A variant with setProcessing(false) in the try block instead of the finally.
processingSettledInTry(ok) == IF ok THEN FALSE ELSE processing

processingSettled(ok) == FALSE

\* Lines 68-80 and 83-86 for a caller whose closure holds worker wk: capturePhoto
\* stores the snapshot, then runOcr either alerts and returns (wk null) or sets
\* processing, clears the text and calls recognize.
captureAndRunOcr(wk) ==
  /\ lastCaptureDataUrl' = toDataURL(video)
  /\ IF wk = "null"
     THEN UNCHANGED <<processing, ocrText>>
     ELSE processing' = TRUE /\ ocrText' = ""

\* A variant of check without the guard of line 118: a frame without dimensions
\* goes on to the variance test.
checkNoDimensionGuard(th, inLoop) ==
  /\ UNCHANGED fixedVars
  /\ th.pc = "scheduled"
  /\ UNCHANGED <<cameraVars, video, autoCapture, worker, autoConfidenceThreshold, initPc, calls>>
  /\ IF video.readyState < 2
     THEN /\ event' = "tickSkip"
          /\ UNCHANGED <<lastCaptureDataUrl, processing, ocrText, loop, stale>>
     ELSE IF VarianceAbove(video, varianceThreshold) /\ ~th.processing
     THEN /\ captureAndRunOcr(th.worker)
          /\ event' = IF th.worker = "null" THEN "autoNotReady" ELSE "autoCapture"
          /\ LET th2 == IF th.worker = "null"
                        THEN [th EXCEPT !.pc = "cooldown"]
                        ELSE [th EXCEPT !.pc = "recognizing", !.img = toDataURL(video)]
             IN  Render(LoopWith(th, inLoop, th2), StaleWith(th, inLoop, th2))
     ELSE /\ event' = "tickPass"
          /\ UNCHANGED <<lastCaptureDataUrl, processing, ocrText, loop, stale>>

\* One run of check (lines 110-153) for the callback th, up to its first await
\* that suspends it or to its requestAnimationFrame.
check(th, inLoop) ==
  /\ UNCHANGED fixedVars
  /\ th.pc = "scheduled"
  /\ UNCHANGED <<cameraVars, video, autoCapture, worker, autoConfidenceThreshold, initPc, calls>>
  /\ IF ~mounted \/ video.readyState < 2 \/ video.videoWidth = 0 \/ video.videoHeight = 0
     THEN /\ event' = "tickSkip"
          /\ UNCHANGED <<lastCaptureDataUrl, processing, ocrText, loop, stale>>
     ELSE IF VarianceAbove(video, varianceThreshold) /\ ~th.processing
     THEN /\ captureAndRunOcr(th.worker)
          /\ event' = IF th.worker = "null" THEN "autoNotReady" ELSE "autoCapture"
          /\ LET th2 == IF th.worker = "null"
                        THEN [th EXCEPT !.pc = "cooldown"]
                        ELSE [th EXCEPT !.pc = "recognizing", !.img = toDataURL(video)]
             IN  Render(LoopWith(th, inLoop, th2), StaleWith(th, inLoop, th2))
     ELSE /\ event' = "tickPass"
          /\ UNCHANGED <<lastCaptureDataUrl, processing, ocrText, loop, stale>>

\* worker.recognize of a check callback settles (lines 88-96), and check goes on
\* to the cooldown wait of line 150.
checkRecognized(th, inLoop, ok) ==
  /\ UNCHANGED fixedVars
  /\ th.pc = "recognizing"
  /\ UNCHANGED <<cameraVars, video, autoCapture, worker, autoConfidenceThreshold, initPc, calls,
                 lastCaptureDataUrl>>
  /\ ocrText' = ocrTextSettled(th.img, ok)
  /\ processing' = processingSettled(ok)
  /\ event' = IF ok THEN "autoDone" ELSE "autoError"
  /\ LET th2 == [th EXCEPT !.pc = "cooldown", !.img = "none"]
     IN  Render(LoopWith(th, inLoop, th2), StaleWith(th, inLoop, th2))

\* The setTimeout of line 150 fires: line 152 hands check to requestAnimationFrame.
cooldownElapsed(th, inLoop) ==
  /\ UNCHANGED fixedVars
  /\ th.pc = "cooldown"
  /\ UNCHANGED <<cameraVars, video, autoCapture, worker, autoConfidenceThreshold, initPc, calls,
                 lastCaptureDataUrl, processing, ocrText>>
  /\ event' = "none"
  /\ LET th2 == [th EXCEPT !.pc = "scheduled"]
     IN  loop' = LoopWith(th, inLoop, th2) /\ stale' = StaleWith(th, inLoop, th2)

\* onCaptureClick (lines 100-103) up to the await of line 88; the handler is the
\* one of the latest render, so it reads the current worker.
onCaptureClick ==
  /\ UNCHANGED fixedVars
  /\ mounted
  /\ worker # "null" => BagCardinality(calls) < MaxManual
  /\ UNCHANGED <<cameraVars, video, autoCapture, worker, autoConfidenceThreshold, initPc>>
  /\ captureAndRunOcr(worker)
  /\ calls' = IF worker = "null" THEN calls ELSE calls (+) SetToBag({toDataURL(video)})
  /\ event' = IF worker = "null" THEN "clickNotReady" ELSE "click"
  /\ Render(loop, stale)

\* A variant of runOcr that calls worker.recognize again when it rejects.
clickRecognizedRetry(img, ok) ==
  /\ UNCHANGED fixedVars
  /\ BagIn(img, calls)
  /\ UNCHANGED <<cameraVars, video, autoCapture, worker, autoConfidenceThreshold, initPc,
                 lastCaptureDataUrl>>
  /\ calls' = IF ok THEN calls (-) SetToBag({img}) ELSE calls
  /\ ocrText' = ocrTextSettled(img, ok)
  /\ processing' = IF ok THEN FALSE ELSE processing
  /\ event' = IF ok THEN "clickDone" ELSE "clickError"
  /\ Render(loop, stale)

\* worker.recognize of a manual capture settles (lines 88-96).
clickRecognized(img, ok) ==
  /\ UNCHANGED fixedVars
  /\ BagIn(img, calls)
  /\ UNCHANGED <<cameraVars, video, autoCapture, worker, autoConfidenceThreshold, initPc,
                 lastCaptureDataUrl>>
  /\ calls' = calls (-) SetToBag({img})
  /\ ocrText' = ocrTextSettled(img, ok)
  /\ processing' = processingSettled(ok)
  /\ event' = IF ok THEN "clickDone" ELSE "clickError"
  /\ Render(loop, stale)

\* The auto-capture button, line 208.
toggleAutoCapture ==
  /\ UNCHANGED fixedVars
  /\ mounted
  /\ UNCHANGED <<cameraVars, video, worker, autoConfidenceThreshold, initPc, calls,
                 lastCaptureDataUrl, processing, ocrText>>
  /\ autoCapture' = ~autoCapture
  /\ event' = "none"
  /\ Render(loop, stale)

\* The threshold slider, line 217.
setAutoConfidenceThreshold(value) ==
  /\ UNCHANGED fixedVars
  /\ mounted
  /\ value # autoConfidenceThreshold
  /\ autoConfidenceThreshold' = value
  /\ event' = "none"
  /\ UNCHANGED <<cameraVars, video, autoCapture, worker, initPc, calls, loop, stale,
                 lastCaptureDataUrl, processing, ocrText>>

\* The clear button, line 226.
clearText ==
  /\ UNCHANGED fixedVars
  /\ mounted
  /\ ocrText # ""
  /\ ocrText' = ""
  /\ event' = "none"
  /\ UNCHANGED <<cameraVars, video, autoCapture, worker, autoConfidenceThreshold, initPc, calls,
                 loop, stale, lastCaptureDataUrl, processing>>

\* The worker initialisation of lines 46-56 finishes: setWorker(w), or one of
\* its awaits rejects. The async function of line 48 has no try/catch and its
\* promise no handler, so the rejection is unhandled; the worker stays null.
workerInit(ok) ==
  /\ UNCHANGED fixedVars
  /\ initPc = "loading"
  /\ initPc' = IF ok THEN "done" ELSE "failed"
  /\ worker' = IF ok /\ mounted THEN "w" ELSE worker
  /\ event' = IF ok THEN "none" ELSE "unhandledRejection"
  /\ UNCHANGED <<cameraVars, video, autoCapture, autoConfidenceThreshold, calls,
                 lastCaptureDataUrl, processing, ocrText>>
  /\ Render(loop, stale)

\* The camera shows something else, or the element's readiness changes.
videoChange(v) ==
  /\ UNCHANGED fixedVars
  /\ srcObject # 0
  /\ v # video
  /\ video' = v
  /\ event' = "none"
  /\ UNCHANGED <<cameraVars, captureVars>>

----------------------------------------------------------------------------
\* The camera.

GetUserMedia == [pc |-> "getUserMedia", s |-> 0]

\* toggleFacing (lines 159-161) and the effect of lines 59-65 that re-runs on it:
\* the cleanup stops the stream its render saw, then startCamera (lines 29-32)
\* stops the stream of the current render and calls getUserMedia.
toggleFacing ==
  /\ UNCHANGED fixedVars
  /\ mounted
  /\ acquired + BagCardinality(startCalls) < MaxStreams
  /\ facingMode' = IF facingMode = "environment" THEN "user" ELSE "environment"
  /\ liveStreams' = liveStreams \ {effStream, stream}
  /\ effStream' = stream
  /\ startCalls' = startCalls (+) SetToBag({GetUserMedia})
  /\ event' = "none"
  /\ UNCHANGED <<stream, srcObject, acquired, video, captureVars>>

\* getUserMedia resolves with a new stream (lines 32-37): it becomes the
\* element's srcObject, which resets the element, and play() is called. After an
\* unmount videoRef.current is null: line 36 throws and the catch alerts, with
\* the new stream left as it is.
getUserMediaResolved ==
  /\ UNCHANGED fixedVars
  /\ BagIn(GetUserMedia, startCalls)
  /\ acquired' = acquired + 1
  /\ liveStreams' = liveStreams \cup {acquired + 1}
  /\ IF mounted
     THEN /\ srcObject' = acquired + 1
          /\ video' = NoVideo
          /\ startCalls' = Replace(startCalls, GetUserMedia, [pc |-> "play", s |-> acquired + 1])
          /\ event' = "none"
     ELSE /\ UNCHANGED <<srcObject, video>>
          /\ startCalls' = startCalls (-) SetToBag({GetUserMedia})
          /\ event' = "cameraError"
  /\ UNCHANGED <<stream, facingMode, effStream, captureVars>>

\* getUserMedia rejects: the catch of lines 39-42 alerts.
getUserMediaRejected ==
  /\ UNCHANGED fixedVars
  /\ BagIn(GetUserMedia, startCalls)
  /\ startCalls' = startCalls (-) SetToBag({GetUserMedia})
  /\ event' = "cameraError"
  /\ UNCHANGED <<stream, facingMode, srcObject, liveStreams, acquired, effStream, video, captureVars>>

\* play() settles (lines 37-38): setStream(s), which an unmounted component
\* ignores, or the catch alerts.
played(c, ok) ==
  /\ UNCHANGED fixedVars
  /\ BagIn(c, startCalls)
  /\ c.pc = "play"
  /\ startCalls' = startCalls (-) SetToBag({c})
  /\ stream' = IF ok /\ mounted THEN c.s ELSE stream
  /\ event' = IF ok THEN "none" ELSE "cameraError"
  /\ UNCHANGED <<facingMode, srcObject, liveStreams, acquired, effStream, video, captureVars>>

\* The component unmounts: the cleanups of the three effects run. Line 55 clears
\* the initialisation's mounted flag, line 62 stops the stream that the render
\* of the facingMode effect's last run saw, line 155 cancels rafId (which stops
\* the loop's check only if it is waiting for its animation frame).
unmount ==
  /\ mounted
  /\ mounted' = FALSE
  /\ liveStreams' = liveStreams \ {effStream}
  /\ loop' = NoThread
  /\ stale' = IF loop.pc \in {"none", "scheduled"} THEN stale ELSE stale (+) SetToBag({loop})
  /\ event' = "none"
  /\ UNCHANGED <<sample, stream, facingMode, srcObject, acquired, startCalls, effStream, video,
                 ocrText, processing, autoCapture, worker, lastCaptureDataUrl,
                 autoConfidenceThreshold, initPc, calls>>

----------------------------------------------------------------------------
\* The component after its first render and the first run of its effects:
\* startCamera has called getUserMedia (stream was null), the worker is loading,
\* auto-capture is off.
Init ==
  /\ stream = 0
  /\ ocrText = ""
  /\ processing = FALSE
  /\ autoCapture = FALSE
  /\ worker = "null"
  /\ facingMode = "environment"
  /\ lastCaptureDataUrl = "null"
  /\ autoConfidenceThreshold = 600
  /\ video = NoVideo
  /\ srcObject = 0
  /\ liveStreams = {}
  /\ acquired = 0
  /\ startCalls = SetToBag({GetUserMedia})
  /\ effStream = 0
  /\ initPc = "loading"
  /\ loop = NoThread
  /\ stale = EmptyBag
  /\ calls = EmptyBag
  /\ event = "none"
  /\ mounted = TRUE
  /\ sample = NoSample

\* The steps of capture and recognition while the component is mounted, with the
\* camera acquisition of the mount.
\* toggleFacing is left to CameraSpec: it changes the camera variables only, and
\* what it does to the video (a new srcObject resets the element) is a videoChange.
Next ==
  \/ check(loop, TRUE)
  \/ \E th \in BagToSet(stale) : check(th, FALSE)
  \/ \E th \in BagToSet(stale), ok \in BOOLEAN : checkRecognized(th, FALSE, ok)
  \/ cooldownElapsed(loop, TRUE)
  \/ \E th \in BagToSet(stale) : cooldownElapsed(th, FALSE)
  \/ onCaptureClick
  \/ \E img \in Images, ok \in BOOLEAN : clickRecognized(img, ok)
  \/ toggleAutoCapture
  \/ \E value \in SliderValues : setAutoConfidenceThreshold(value)
  \/ clearText
  \/ \E ok \in BOOLEAN : workerInit(ok)
  \/ \E v \in Videos : videoChange(v)
  \/ getUserMediaResolved
  \/ getUserMediaRejected
  \/ \E c \in BagToSet(startCalls), ok \in BOOLEAN : played(c, ok)

Spec == Init /\ [][Next]_vars

\* The steps of the camera: facing toggles, the acquisitions they start, and the
\* unmount, after which pending acquisitions still settle.
CameraNext ==
  \/ toggleFacing
  \/ unmount
  \/ getUserMediaResolved
  \/ getUserMediaRejected
  \/ \E c \in BagToSet(startCalls), ok \in BOOLEAN : played(c, ok)

CameraSpec == Init /\ [][CameraNext]_vars


\* worker.recognize calls settle: the assumption that every engine call completes.
recognizeSettles ==
  \/ \E th \in BagToSet(stale), ok \in BOOLEAN : checkRecognized(th, FALSE, ok)
  \/ \E img \in Images, ok \in BOOLEAN : clickRecognized(img, ok)

FairSpec == Spec /\ WF_vars(recognizeSettles)

----------------------------------------------------------------------------
\* The sampler on its own: lines 132-144 applied to the pixels getImageData
\* returned, for thresholds t1 < t2 in the place of varianceThreshold.

MaxRegion == 6    \* pixels of a sampled box

SampleLevels == {0, 50, 128, 255}
Thresholds == {0, varianceThreshold, 2000}

Uniform(c, n) == [i \in 1..n |-> c]
TwoTone(a, b, n) == [i \in 1..n |-> IF i % 2 = 1 THEN <<a, a, a>> ELSE <<b, b, b>>]
IsUniform(px) == px # <<>> /\ \A i \in 1..Len(px) : px[i] = px[1]

\* Boxes of one colour, boxes of two alternating greys, and the boxes of Videos.
SampleFrames ==
  {Uniform(<<r, g, b>>, n) : r \in SampleLevels, g \in SampleLevels, b \in SampleLevels,
                             n \in 1..MaxRegion}
  \cup {TwoTone(a, b, n) : a \in SampleLevels, b \in SampleLevels, n \in 1..MaxRegion}
  \cup {pixels(v) : v \in {u \in Videos : len(u) > 0}}

sampleRegion ==
  /\ sample.pc = "drawn"
  /\ sample' = [pc |-> "sampled", px |-> sample.px, t1 |-> sample.t1, t2 |-> sample.t2,
                variance |-> variance(sample.px),
                at1 |-> Triggers(variance(sample.px), sample.t1),
                at2 |-> Triggers(variance(sample.px), sample.t2)]
  /\ UNCHANGED <<mounted, video, event, cameraVars, captureVars>>

SamplerInit ==
  /\ sample \in {s \in [pc : {"drawn"}, px : SampleFrames, t1 : Thresholds, t2 : Thresholds] :
                   s.t1 < s.t2}
  /\ stream = 0
  /\ ocrText = ""
  /\ processing = FALSE
  /\ autoCapture = FALSE
  /\ worker = "null"
  /\ facingMode = "environment"
  /\ lastCaptureDataUrl = "null"
  /\ autoConfidenceThreshold = 600
  /\ video = NoVideo
  /\ srcObject = 0
  /\ liveStreams = {}
  /\ acquired = 0
  /\ startCalls = SetToBag({GetUserMedia})
  /\ effStream = 0
  /\ initPc = "loading"
  /\ loop = NoThread
  /\ stale = EmptyBag
  /\ calls = EmptyBag
  /\ event = "none"
  /\ mounted = TRUE

SamplerNext == sampleRegion

SamplerSpec == SamplerInit /\ [][SamplerNext]_vars

----------------------------------------------------------------------------
\* Vocabulary of the properties.

Threads == BagToSet(stale) \cup (IF loop.pc = "none" THEN {} ELSE {loop})

\* The number of check callbacks standing at pc.
ThreadsAt(pc) ==
  BagCardinality([th \in {t \in BagToSet(stale) : t.pc = pc} |-> stale[th]])
  + (IF loop.pc = pc THEN 1 ELSE 0)

\* worker.recognize calls that have not settled.
InFlight == BagCardinality(calls) + ThreadsAt("recognizing")

\* The step is a run of check that called capturePhoto and runOcr.
AutoCaptureIssued == event' \in {"autoCapture", "autoNotReady"}

\* The step is a run of check.
CheckRan == event' \in {"tickSkip", "tickPass", "autoCapture", "autoNotReady"}

\* The step is a capture request that found the worker null.
RequestNotReady == event' \in {"clickNotReady", "autoNotReady"}

\* The step is the rejection of a worker.recognize call.
RecognizeFailed == event' \in {"clickError", "autoError"}

TypeOK ==
  /\ processing \in BOOLEAN /\ autoCapture \in BOOLEAN
  /\ worker \in {"null", "w"}
  /\ ocrText \in {recognize(img) : img \in Images}
  /\ lastCaptureDataUrl \in Images \cup {"null"}
  /\ autoConfidenceThreshold \in SliderValues
  /\ video \in Videos
  /\ BagCardinality(stale) <= MaxStale /\ BagCardinality(calls) <= MaxManual
  /\ acquired <= MaxStreams /\ liveStreams \subseteq 1..acquired
  /\ loop.pc \in {"none", "scheduled", "cooldown"}
  /\ loop.pc # "none" => autoCapture /\ loop.processing = processing /\ loop.worker = worker
  /\ mounted \in BOOLEAN
  /\ sample.pc \in {"none", "drawn", "sampled"}
  /\ sample.pc # "none" => sample.px \in SampleFrames /\ sample.t1 < sample.t2

----------------------------------------------------------------------------
\* C1: no run of check captures and starts a recognition while processing is true.
C1_NoAutoCaptureWhileProcessing == [][event' = "autoCapture" => ~processing]_vars

\* C2: at most one worker.recognize call is in flight at any time.
C2_SingleFlight == InFlight <= 1

\* C3: no run of check issues a capture while a check callback is still in the
\* cooldown wait that follows its completed capture and recognition.
C3_CooldownEnforced ==
  [][AutoCaptureIssued => \A th \in Threads : ~(th.pc = "cooldown" /\ th.worker = "w")]_vars

\* C4: while autoCapture is false no check runs (and so none captures).
C4_DisabledStopsSampling == [][~autoCapture => ~CheckRan]_vars

\* C5: a capture request that finds the worker null snapshots nothing: the
\* captured image, processing and the recognize calls are as before.
C5_NotReadyNoCapture ==
  [][RequestNotReady => /\ lastCaptureDataUrl' = lastCaptureDataUrl
                        /\ processing' = processing
                        /\ InFlight' = InFlight]_vars

\* C6: when a recognize call fails, processing is false and the text is empty
\* after the failure has been handled.
C6_FailureClearsText == [][RecognizeFailed => ~processing' /\ ocrText' = ""]_vars

\* C7: whenever processing is true it later becomes false, provided recognize
\* calls settle (with either outcome).
C7_ReturnsToIdle == processing ~> ~processing

\* C7 witness: a failed recognize call has been handled and processing is false.
C7_Witness == event \in {"clickError", "autoError"} /\ ~processing

\* C8: when getUserMedia hands out a stream, every stream acquired before it
\* has been stopped.
C8_PreviousStoppedFirst == [][acquired' > acquired => liveStreams = {}]_vars

\* C9: when the recognize call of a manual capture resolves with the text of its
\* image, ocrText is exactly that text and processing is false.
C9_ManualResult ==
  [][event' = "clickDone" =>
       \E img \in Images : /\ BagIn(img, calls)
                           /\ calls' = calls (-) SetToBag({img})
                           /\ ocrText' = recognize(img)
                           /\ ~processing']_vars

\* C9 witness: a manual capture of the memo has ended with its text.
C9_Witness == event = "clickDone" /\ ocrText = "MEMO" /\ ~processing /\ lastCaptureDataUrl = "memo"

\* C10: a run of check fires exactly when the variance exceeds the cutoff set
\* by the slider and processing is false.
C10_SliderIsCutoff ==
  [][CheckRan => (AutoCaptureIssued <=>
                    VarianceAbove(video, autoConfidenceThreshold) /\ ~processing)]_vars

\* The step is a capture request, manual or automatic.
CaptureRequested == event' \in {"click", "clickNotReady", "autoCapture", "autoNotReady"}

\* The last step was a capture request that failed: the worker was null or
\* worker.recognize rejected.
RequestJustFailed == event \in {"clickNotReady", "autoNotReady", "clickError", "autoError"}

\* C13 (as claimed): the step that follows a failed capture request, with no user
\* action in between, is not an automatic capture.
C13_NoAutomaticRetry == [][RequestJustFailed => ~AutoCaptureIssued]_vars

\* C13 (amended): handling a failure starts nothing: a rejected recognize call
\* is not made again, a request that finds the worker null calls nothing, and a
\* snapshot or a recognize call is only ever made by a capture request (a click
\* or a run of check).
C13_FailureStartsNothing ==
  [][/\ RecognizeFailed => InFlight' = InFlight - 1
     /\ RequestNotReady => InFlight' = InFlight
     /\ (lastCaptureDataUrl' # lastCaptureDataUrl \/ InFlight' > InFlight) => CaptureRequested]_vars

\* C13 witness: a rejected recognize call has been handled and none is in flight.
C13_Witness == event \in {"clickError", "autoError"} /\ InFlight = 0 /\ autoCapture

\* The step is the failure of an external collaborator: getUserMedia or play()
\* rejects, the worker initialisation rejects, or worker.recognize rejects.
CollaboratorFailed ==
  \/ BagCardinality(startCalls') < BagCardinality(startCalls) /\ stream' = stream
  \/ initPc = "loading" /\ initPc' = "failed"
  \/ InFlight' < InFlight /\ event' \notin {"clickDone", "autoDone"}

\* The alerts of lines 41 and 93.
Notices == {"cameraError", "clickError", "autoError"}

\* C14: every failure of an external collaborator ends in an alert, none in an
\* unhandled rejection, and a failed initialisation leaves the worker null.
C14_FailuresBecomeNotices ==
  [][CollaboratorFailed => /\ event' \in Notices
                           /\ (initPc' = "failed" => worker' = "null")]_vars

\* C15: at most one check callback exists (scheduled, or suspended in a capture,
\* a recognition or a cooldown wait) at any time.
C15_OneCheckAtATime == BagCardinality(stale) + (IF loop.pc = "none" THEN 0 ELSE 1) <= 1

\* C17: when processing is false and ocrText is not empty, ocrText is the text
\* of the image held in lastCaptureDataUrl.
C17_TextOfCurrentCapture ==
  (~processing /\ ocrText # "") =>
     (lastCaptureDataUrl # "null" /\ ocrText = recognize(lastCaptureDataUrl))

\* C19: once the worker is set, no run of check is turned away by runOcr as
\* engine-not-ready.
C19_ReadyWorkerIsUsed == [][worker = "w" => event' # "autoNotReady"]_vars

\* The feed is not ready for sampling: no current frame, or a frame without
\* dimensions (lines 111 and 118).
FeedNotReady == ~mounted \/ video.readyState < 2 \/ video.videoWidth = 0 \/ video.videoHeight = 0

\* C16: a run of check that finds the feed not ready skips: it captures nothing,
\* leaves the result state, the recognize calls and every check callback as they
\* were (the callback that ran is scheduled again), and no run of check skips
\* when the feed is ready.
C16_NotReadySkips ==
  [][CheckRan => /\ FeedNotReady <=> event' = "tickSkip"
                 /\ FeedNotReady =>
                      UNCHANGED <<lastCaptureDataUrl, ocrText, processing, calls, loop, stale>>]_vars

\* C16 witness: a run of check has skipped and its callback is scheduled again.
C16_Witness ==
  /\ event = "tickSkip" /\ FeedNotReady /\ video.readyState >= 2
  /\ loop.pc = "scheduled" /\ stale = EmptyBag

\* C18: the unmount stops every stream that was acquired and is still live.
C18_UnmountStopsStreams == [][(mounted /\ ~mounted') => liveStreams' = {}]_vars

\* The magnitude of a computed variance is below 1.
BelowOne(v) == v.s # 0 /\ DGreater(ToDouble(1), [v EXCEPT !.s = 1])

\* On the frames of Videos the doubles give the comparison that VarianceAbove
\* computes in integers.
SamplerAgrees ==
  \A v \in {u \in Videos : len(u) > 0}, t \in Thresholds :
     (sample.pc = "sampled" /\ sample.px = pixels(v))
        => (Triggers(sample.variance, t) <=> VarianceAbove(v, t))

\* C11: a frame that triggers at the higher threshold t2 triggers at the lower
\* threshold t1 as well; a frame that fails at t1 fails at t2.
C11_ThresholdMonotone ==
  (sample.pc = "sampled" /\ sample.t1 < sample.t2) => (sample.at2 => sample.at1)

C11_Witness == sample.pc = "sampled" /\ sample.t1 < sample.t2 /\ sample.at2 /\ sample.at1

\* C12 as stated: the variance computed for a box of one colour is 0.
C12_UniformVarianceIsZero ==
  (sample.pc = "sampled" /\ IsUniform(sample.px)) => IsZero(sample.variance)

\* C12, amended: the variance computed for a box of one colour is 0 up to the
\* rounding of the doubles (its magnitude is below 1), and the box does not
\* trigger at varianceThreshold.
C12_UniformNeverTriggers ==
  (sample.pc = "sampled" /\ IsUniform(sample.px))
     => /\ BelowOne(sample.variance)
        /\ ~Triggers(sample.variance, varianceThreshold)
        /\ sample.t1 = varianceThreshold => ~sample.at1
        /\ sample.t2 = varianceThreshold => ~sample.at2

C12_Witness ==
  /\ sample.pc = "sampled"
  /\ IsUniform(sample.px)
  /\ ~IsZero(sample.variance)
  /\ sample.t1 = varianceThreshold
  /\ ~sample.at1

====
